---------------------------- MODULE Spec2Model ----------------------------
(***************************************************************************)
(* A model of photon-tools' change-point analysis (src/change_point.py)    *)
(* and of its maximum-entropy mixture fit (src/photon_tools/fcs_mem.py).   *)
(*                                                                         *)
(* One run of the model is one call of one entry point (op): tau95,        *)
(* compute_likelihood, find_change_points or mem.  A call is followed      *)
(* statement group by statement group (pc) until it returns or raises      *)
(* (outcome).                                                              *)
(*                                                                         *)
(* Numbers.  Floating-point values are modelled exactly where the code's   *)
(* behaviour depends on them: a finite value is a rational <<num, den>>,   *)
(* and the IEEE specials the code can produce (log(0), x/0) are the        *)
(* classes "pinf", "ninf" and "nan".  The value of a logarithm is kept     *)
(* symbolic (coefficient and argument); log(1) is 0.  Rounding, overflow   *)
(* and underflow of finite values are not modelled.                        *)
(***************************************************************************)
EXTENDS Integers, Sequences, FiniteSets, TLC

VARIABLES
    op,         \* the entry point this run calls
    pc,         \* position inside the call
    outcome,    \* how the call ended: a return value or a raised exception
    args,       \* tau95: the positional arguments of the call
    times,      \* compute_likelihood / find_change_points: the timestamps
    alpha,      \* find_change_points: the confidence level, in percent
    i,          \* find_change_points: the loop variable
    chgpts,     \* find_change_points: the list of change points
    windows,    \* find_change_points: the slices times[i:i+chunk_sz] taken so far
    likCalls,   \* find_change_points: the chunks compute_likelihood was called on
    y, models, sigma, p0, expected,   \* mem: the arguments
    p,          \* mem: the weights
    H, g0,      \* mem: the fit matrices
    delta,      \* mem: the diagonal of the regularisation term
    pAtDelta,   \* mem: the weights as they were when delta was computed
    call,       \* mem: the arguments of the last call of the QP solver
    converged   \* mem: the convergence flag

cpVars  == <<args, times, alpha, i, chgpts, windows, likCalls>>
memVars == <<y, models, sigma, p0, expected, p, H, g0, delta, pAtDelta, call, converged>>
vars    == <<op, pc, outcome, cpVars, memVars>>

(***************************************************************************)
(* Bounds of the model.                                                    *)
(***************************************************************************)
TauNeg     == 3     \* tau95 is tried on -TauNeg .. TauMax
TauMax     == 103
LikMaxLen  == 3     \* compute_likelihood: timestamp sequences of length 1 .. LikMaxLen
LikMaxT    == 4     \* ... with timestamps in 0 .. LikMaxT
FcpChunks  == 2     \* find_change_points: inputs of up to FcpChunks full chunks
FcpExtra   == 2     \* ... plus 0 .. FcpExtra further events
PMax       == 2     \* the QP solver's solutions have components in 0 .. PMax

(***************************************************************************)
(* Python values.                                                          *)
(***************************************************************************)
None == [none |-> TRUE]
(* The value of a local array variable that is not bound yet.              *)
Unbound == <<>>

Returned(v) == [kind |-> "return", exc |-> "", value |-> v]
Raised(e)   == [kind |-> "raise", exc |-> e, value |-> None]
Running     == [kind |-> "running", exc |-> "", value |-> None]

Min(a, b) == IF a <= b THEN a ELSE b
Abs(a)    == IF a < 0 THEN -a ELSE a

RECURSIVE Gcd(_, _)
Gcd(a, b) == IF b = 0 THEN a ELSE Gcd(b, a % b)

(* Exact rationals <<num, den>>, den > 0, in lowest terms.  Sums and       *)
(* products cancel common factors first, to keep the integers small.       *)
Rat(n, d) ==
    LET s == IF d < 0 THEN -1 ELSE 1
        g == Gcd(Abs(n), Abs(d))
    IN  <<(s * n) \div g, (s * d) \div g>>
RInt(n)    == <<n, 1>>
RAdd(a, b) ==
    LET g == Gcd(a[2], b[2])
    IN  Rat(a[1] * (b[2] \div g) + b[1] * (a[2] \div g), (a[2] \div g) * b[2])
RNeg(a)    == <<-a[1], a[2]>>
RSub(a, b) == RAdd(a, RNeg(b))
RMul(a, b) ==
    LET g == Gcd(Abs(a[1]), b[2])
        h == Gcd(Abs(b[1]), a[2])
    IN  Rat((a[1] \div g) * (b[1] \div h), (a[2] \div h) * (b[2] \div g))
RDiv(a, b) == RMul(a, IF b[1] < 0 THEN <<-b[2], -b[1]>> ELSE <<b[2], b[1]>>)  \* b # 0
RZero      == RInt(0)
RSign(a)   == IF a[1] > 0 THEN 1 ELSE IF a[1] < 0 THEN -1 ELSE 0

RECURSIVE RSum(_)
RSum(s) == IF s = <<>> THEN RZero ELSE RAdd(s[1], RSum(Tail(s)))

(* IEEE values: a finite rational or one of the specials.                  *)
Fin(r) == [c |-> "fin", v |-> r]
PInf   == [c |-> "pinf", v |-> RZero]
NInf   == [c |-> "ninf", v |-> RZero]
NaN    == [c |-> "nan", v |-> RZero]

(* x / y as numpy divides floats: a division by zero yields inf or nan.    *)
FDiv(x, yy) ==
    CASE x.c = "nan" \/ yy.c = "nan" -> NaN
      [] x.c = "fin" /\ yy.c = "fin" ->
            IF RSign(yy.v) # 0 THEN Fin(RDiv(x.v, yy.v))
            ELSE IF RSign(x.v) > 0 THEN PInf
            ELSE IF RSign(x.v) < 0 THEN NInf
            ELSE NaN
      [] x.c = "fin" -> Fin(RZero)                       \* finite / inf
      [] yy.c = "fin" ->                                 \* inf / finite
            IF (x.c = "pinf") = (RSign(yy.v) >= 0) THEN PInf ELSE NInf
      [] OTHER -> NaN                                    \* inf / inf

(* x - y.                                                                  *)
FSub(x, yy) ==
    CASE x.c = "nan" \/ yy.c = "nan" -> NaN
      [] x.c = "fin" /\ yy.c = "fin" -> Fin(RSub(x.v, yy.v))
      [] x.c = "fin" -> IF yy.c = "pinf" THEN NInf ELSE PInf
      [] yy.c = "fin" -> x
      [] OTHER -> IF x.c = yy.c THEN NaN ELSE x

(* The class of log(x): log(0) = -inf, log of a negative number is nan.    *)
LogClass(x) ==
    CASE x.c = "fin" -> IF RSign(x.v) > 0 THEN "fin"
                        ELSE IF RSign(x.v) = 0 THEN "ninf" ELSE "nan"
      [] x.c = "pinf" -> "pinf"
      [] OTHER -> "nan"

(* The class of c * x for an integer c >= 0 and x of class cls.            *)
ScaleClass(c, cls) ==
    IF cls = "fin" \/ cls = "nan" THEN cls
    ELSE IF c = 0 THEN "nan" ELSE cls

(* The class of x + y and of x - y for y finite.                           *)
AddClass(a, b) ==
    CASE a = "nan" \/ b = "nan" -> "nan"
      [] a = "fin" -> b
      [] b = "fin" -> a
      [] OTHER -> IF a = b THEN a ELSE "nan"

(***************************************************************************)
(* change_point.py                                                         *)
(***************************************************************************)

(* The names bound at module level, and the builtins the functions use.    *)
ModuleGlobals ==
    {"np", "log", "tau95", "compute_likelihood", "find_tau", "find_change_points",
     "test_discrete_data", "test_gaussian_data"}
Builtins == {"len", "range", "RuntimeError"}

(* The coefficients of tau95's two formulas, in units of 10^-6: the        *)
(* constant and the factors of log(n), log(n**2) and log(n**3).            *)
P1 == <<3012300, 483500, -9570, -1488>>
P2 == <<3080600, 489400, -20860, 0>>

(* (c0 + c1*log(n) + c2*log(n**2) + c3*log(n**3)) / n, kept symbolic.      *)
PolyOverN(coef, n) == [poly |-> coef, n |-> n]

tau95_off_by_one(n) ==
    IF 1 < n /\ n < 100 THEN Returned(PolyOverN(P1, n))
    ELSE IF 100 < n THEN Returned(PolyOverN(P2, n))
    ELSE Raised("RuntimeError")

tau95(n) ==
    IF 1 < n /\ n <= 100 THEN Returned(PolyOverN(P1, n))
    ELSE IF 100 < n THEN Returned(PolyOverN(P2, n))
    ELSE Raised("RuntimeError")

(* A call of tau95 with the positional arguments a: the signature takes    *)
(* exactly one.                                                            *)
call_tau95(a) ==
    IF Len(a) # 1 THEN Raised("TypeError") ELSE tau95(a[1])

(* The class of L[k], k counted from 0, for the timestamps t.              *)
LikelihoodClass(t, k) ==
    LET N  == Len(t)
        T  == Fin(RInt(t[N]))
        Vk == FDiv(Fin(RInt(t[k + 1])), T)
        a  == ScaleClass(2 * k, LogClass(FDiv(Fin(RInt(k)), Vk)))
        b  == ScaleClass(2 * (N - k),
                         LogClass(FDiv(Fin(RInt(N - k)), FSub(Fin(RInt(1)), Vk))))
    IN  AddClass(AddClass(a, b), "fin")

compute_likelihood(t) ==
    IF Len(t) = 0 THEN Raised("IndexError")
    ELSE Returned([k \in 1..Len(t) |-> LikelihoodClass(t, k - 1)])

chunk_sz == 1000

(* times[a:b] of Python, a and b counted from 0.                           *)
Slice(s, a, b) == SubSeq(s, a + 1, Min(b, Len(s)))

(* The names the loop body of find_change_points looks up, in the order    *)
(* it evaluates them.                                                      *)
BodyNames == <<"compute_likelihood", "argmax", "compute_tau", "beta">>

RECURSIVE FirstUnbound(_)
FirstUnbound(names) ==
    IF names = <<>> THEN ""
    ELSE IF names[1] \in ModuleGlobals \cup Builtins THEN FirstUnbound(Tail(names))
    ELSE names[1]


(***************************************************************************)
(* photon_tools/fcs_mem.py                                                 *)
(***************************************************************************)

(* A numpy array: its shape and its elements in row-major order.           *)
Arr(shape, data) == [shape |-> shape, data |-> data]
Vec(data)        == Arr(<<Len(data)>>, data)
Scalar(v)        == Arr(<<>>, <<v>>)

(* a[j] for a 1-d array, or a itself where a scalar is broadcast.          *)
Elem(a, j) == IF a.shape = <<>> THEN a.data[1] ELSE a.data[j]
(* a[m, j] for a 2-d array.                                                *)
Elem2(a, m, j) == a.data[(m - 1) * a.shape[2] + j]

(* The shape checks of mem: the exception raised, or "" when all pass.     *)
(* Unpacking models.shape into two names fails unless models is 2-d.       *)
ShapeError_no_y(yy, mm, ss, pp, ee) ==
    IF Len(mm.shape) # 2 THEN "ValueError"
    ELSE LET Nmodels == mm.shape[1]
             Npts    == mm.shape[2]
         IN  IF ss.shape # <<Npts>> THEN "AssertionError"
             ELSE IF ee # None /\ ee.shape # <<Nmodels>> THEN "AssertionError"
             ELSE IF pp # None /\ pp.shape # <<Nmodels>> THEN "AssertionError"
             ELSE ""

ShapeError(yy, mm, ss, pp, ee) ==
    IF Len(mm.shape) # 2 THEN "ValueError"
    ELSE LET Nmodels == mm.shape[1]
             Npts    == mm.shape[2]
         IN  IF yy.shape # <<Npts>> THEN "AssertionError"
             ELSE IF ss.shape # <<Npts>> THEN "AssertionError"
             ELSE IF ee # None /\ ee.shape # <<Nmodels>> THEN "AssertionError"
             ELSE IF pp # None /\ pp.shape # <<Nmodels>> THEN "AssertionError"
             ELSE ""

(* expected and p0 after lines 33-41: the defaults where None was passed.  *)
ExpectedOrDefault == IF expected = None THEN Scalar(1) ELSE expected
P0OrDefault ==
    IF p0 = None THEN Vec([j \in 1..models.shape[1] |-> 1]) ELSE p0

(* The default of the parameter nu, 5e-6.                                  *)
nu == Rat(5, 1000000)

(* Whether models[n, :] * y / sigma**2 broadcasts.                         *)
Broadcasts(yy, mm, ss) ==
    /\ Len(yy.shape) <= 1 /\ Len(ss.shape) <= 1
    /\ \A a \in {yy, ss} : a.shape = <<>> \/ a.shape[1] \in {1, mm.shape[2]}
Bc(a, j) == IF a.shape = <<>> \/ a.shape = <<1>> THEN a.data[1] ELSE a.data[j]

(* g0[n] = 2 / Npts * sum(models[n, :] * y / sigma**2)                     *)
G0(yy, mm, ss) ==
    LET Npts == mm.shape[2]
    IN  [n \in 1..mm.shape[1] |->
            RMul(Rat(2, Npts),
                 RSum([j \in 1..Npts |->
                        Rat(Elem2(mm, n, j) * Bc(yy, j), Bc(ss, j) * Bc(ss, j))]))]

(* H[m, n] = 2 / Npts * sum(models[m, :] * models[n, :] / sigma**2)        *)
Hmat(mm, ss) ==
    LET Npts == mm.shape[2]
    IN  [m \in 1..mm.shape[1] |-> [n \in 1..mm.shape[1] |->
            RMul(Rat(2, Npts),
                 RSum([j \in 1..Npts |->
                        Rat(Elem2(mm, m, j) * Elem2(mm, n, j), Bc(ss, j) * Bc(ss, j))]))]]

(* A number rat + coef * log(arg), or an IEEE special.  log(1) = 0, so a   *)
(* term with arg = 1 or coef = 0 is kept as coef = 0, arg = 1.             *)
LNum(rat, coef, arg) ==
    IF coef = RZero \/ arg = RInt(1)
    THEN [c |-> "fin", rat |-> rat, coef |-> RZero, arg |-> RInt(1)]
    ELSE [c |-> "fin", rat |-> rat, coef |-> coef, arg |-> arg]
LSpecial(cls) == [c |-> cls, rat |-> RZero, coef |-> RZero, arg |-> RInt(1)]

FlipClass(cls) == IF cls = "pinf" THEN "ninf" ELSE IF cls = "ninf" THEN "pinf" ELSE cls

(* The class of r * x for a rational r and x of class cls.                 *)
MulClass(r, cls) ==
    IF cls = "fin" \/ cls = "nan" THEN cls
    ELSE IF RSign(r) = 0 THEN "nan"
    ELSE IF RSign(r) > 0 THEN cls ELSE FlipClass(cls)

LScale(r, x) ==
    IF x.c = "fin" THEN LNum(RMul(r, x.rat), RMul(r, x.coef), x.arg)
    ELSE LSpecial(MulClass(r, x.c))
LAddRat(r, x) ==
    IF x.c = "fin" THEN LNum(RAdd(r, x.rat), x.coef, x.arg) ELSE x

(* log(pj / ej) / pj                                                       *)
DeltaEntry(pj, ej) ==
    LET ratio == FDiv(Fin(pj), Fin(ej))
        lc    == LogClass(ratio)
    IN  IF lc = "fin" THEN LNum(RZero, RDiv(RInt(1), pj), ratio.v)
        ELSE IF lc = "nan" THEN LSpecial("nan")
        ELSE IF RSign(pj) = 0 THEN LSpecial(lc)      \* -inf / 0.0
        ELSE LSpecial(MulClass(pj, lc))

(* The diagonal of delta = np.diag(np.log(p / expected) / p).              *)
Delta(pp, ee) == [j \in 1..Len(pp) |-> DeltaEntry(pp[j], RInt(Elem(ee, j)))]

(* H + nu * delta                                                          *)
Qmat(hh, dd) ==
    [m \in 1..Len(hh) |-> [n \in 1..Len(hh) |->
        IF m = n THEN LAddRat(hh[m][n], LScale(nu, dd[m]))
        ELSE LNum(hh[m][n], RZero, RInt(1))]]

(* The value of an objective: a rational part and, for each component j,   *)
(* the multiple of log(arg) its diagonal entry contributes; c is the       *)
(* class of the whole.                                                     *)
RECURSIVE SumClass(_)
SumClass(s) == IF s = <<>> THEN "fin" ELSE AddClass(s[1], SumClass(Tail(s)))

(* np.dot(x, np.dot(Q, x)) / 2                                             *)
HalfQuadForm(Q, x) ==
    LET n   == Len(x)
        cls == SumClass([m \in 1..n |-> MulClass(x[m], MulClass(x[m], Q[m][m].c))])
    IN  IF cls # "fin" THEN [c |-> cls, rat |-> RZero, logs |-> <<>>]
        ELSE [c |-> "fin",
              rat |-> RMul(Rat(1, 2),
                       RSum([k \in 1..(n * n) |->
                          LET m == ((k - 1) \div n) + 1
                              j == ((k - 1) % n) + 1
                          IN  RMul(x[m], RMul(Q[m][j].rat, x[j]))])),
              logs |-> [m \in 1..n |->
                          LET t == LScale(RMul(Rat(1, 2), RMul(x[m], x[m])),
                                          LNum(RZero, Q[m][m].coef, Q[m][m].arg))
                          IN  <<t.coef, t.arg>>]]

(* np.dot(g, x)                                                            *)
Dot(g, x) == RSum([j \in 1..Len(x) |-> RMul(g[j], x[j])])

ONeg(v) ==
    IF v.c # "fin" THEN [v EXCEPT !.c = FlipClass(v.c)]
    ELSE [c |-> "fin", rat |-> RNeg(v.rat),
          logs |-> [m \in 1..Len(v.logs) |->
                      LET t == LNum(RZero, RNeg(v.logs[m][1]), v.logs[m][2])
                      IN  <<t.coef, t.arg>>]]
OAddRat(r, v) == IF v.c # "fin" THEN v ELSE [v EXCEPT !.rat = RAdd(r, v.rat)]

(* The lambda of line 55: q(x) = g0.x - x.(H + nu*delta).x / 2             *)
q(g, hh, dd, x) == OAddRat(Dot(g, x), ONeg(HalfQuadForm(Qmat(hh, dd), x)))

(* np.linspace(a, b, num): num evenly spaced samples, the last one b.      *)
linspace(a, b, num) ==
    [j \in 1..num |->
        IF j = num THEN b
        ELSE RAdd(a, RMul(RInt(j - 1), RDiv(RSub(b, a), RInt(num - 1))))]
xs == linspace(Rat(1, 100000), RInt(2), 50)

(* The plotting block: for i, for x in xs: p[i] = x; the curves drawn      *)
(* are not part of the state, the assignments to p are.                    *)
RECURSIVE SweepComponent(_, _, _)
SweepComponent(pp, j, samples) ==
    IF samples = <<>> THEN pp
    ELSE SweepComponent([pp EXCEPT ![j] = samples[1]], j, Tail(samples))
RECURSIVE Sweep(_, _)
Sweep(pp, j) ==
    IF j > Len(pp) THEN pp ELSE Sweep(SweepComponent(pp, j, xs), j + 1)
PlotBlock(pp) == Sweep(pp, 1)

(* The QP solver (module shrager): given Q, g, C, d and a start point it   *)
(* returns a point x with C x <= d.  Which feasible point is left open.    *)
RECURSIVE Vectors(_, _)
Vectors(n, S) ==
    IF n = 0 THEN {<<>>}
    ELSE {Append(v, RInt(e)) : v \in Vectors(n - 1, S), e \in S}
Feasible(C, d, x) ==
    \A r \in 1..Len(C) : RSign(RSub(Dot(C[r], x), d[r])) <= 0
shrager(Q, g, C, d, x0) ==
    {x \in Vectors(Len(x0), -1..PMax) : Feasible(C, d, x)}

(* The objective the solver minimises: g.x + x.Q.x / 2                     *)
SolverObjective(Q, g, x) == OAddRat(Dot(g, x), HalfQuadForm(Q, x))

(* -np.eye(n) and np.zeros(n)                                              *)
NegEye(n) == [m \in 1..n |-> [j \in 1..n |-> IF m = j THEN RInt(-1) ELSE RZero]]
Zeros(n)  == [j \in 1..n |-> RZero]

(***************************************************************************)
(* The inputs tried.                                                       *)
(***************************************************************************)

(* Confidence levels in percent: 5 is alpha = 0.05, the default.           *)
AlphaDefault == 5
Alphas == {AlphaDefault, 1, 10}

TauArgs ==
    {<<n>> : n \in (-TauNeg)..TauMax}
      \cup {<<n, a>> : n \in {1, 50, 150}, a \in Alphas}

StrictlyIncreasing(s) == \A j \in 1..(Len(s) - 1) : s[j] < s[j + 1]
LikTimes ==
    {s \in UNION {[1..n -> 0..LikMaxT] : n \in 1..LikMaxLen} : StrictlyIncreasing(s)}

FcpLengths == {c * chunk_sz + e : c \in 0..FcpChunks, e \in 0..FcpExtra}
FcpTimes   == {[j \in 1..n |-> t0 + j - 1] : n \in FcpLengths, t0 \in {0, 1}}

MemModels   == {Arr(<<2, 3>>, <<1, 1, 1, 0, 0, 1>>), Arr(<<2, 2>>, <<1, 1, 0, 2>>),
                Arr(<<3>>, <<1, 1, 1>>)}
MemY        == {Vec(<<1, 1, 1>>), Vec(<<1, 2>>), Vec(<<1>>), Arr(<<3, 1>>, <<1, 1, 1>>)}
MemSigma    == {Vec(<<1, 1, 1>>), Vec(<<1, 2>>)}
MemP0       == {None, Vec(<<1, 1>>), Vec(<<1, 3>>), Vec(<<1, 1, 1>>)}
MemExpected == {None, Vec(<<1, 2>>), Vec(<<1, 1, 1>>)}

cpIdle ==
    /\ args = <<>> /\ times = <<>> /\ alpha = AlphaDefault /\ i = 0
    /\ chgpts = <<>> /\ windows = <<>> /\ likCalls = <<>>
memLocalsInit ==
    /\ p = Unbound /\ H = Unbound /\ g0 = Unbound /\ delta = Unbound
    /\ pAtDelta = Unbound /\ call = None /\ converged = FALSE
memIdle ==
    /\ y = None /\ models = None /\ sigma = None /\ p0 = None /\ expected = None
    /\ memLocalsInit

InitTau ==
    /\ op = "tau95" /\ pc = "call" /\ outcome = Running
    /\ args \in TauArgs
    /\ times = <<>> /\ alpha = AlphaDefault /\ i = 0
    /\ chgpts = <<>> /\ windows = <<>> /\ likCalls = <<>>
    /\ memIdle

InitLik ==
    /\ op = "compute_likelihood" /\ pc = "call" /\ outcome = Running
    /\ times \in LikTimes
    /\ args = <<>> /\ alpha = AlphaDefault /\ i = 0
    /\ chgpts = <<>> /\ windows = <<>> /\ likCalls = <<>>
    /\ memIdle

InitFcp ==
    /\ op = "find_change_points" /\ pc = "loop" /\ outcome = Running
    /\ times \in FcpTimes
    /\ alpha \in Alphas
    /\ args = <<>> /\ i = 0
    /\ chgpts = <<>> /\ windows = <<>> /\ likCalls = <<>>
    /\ memIdle

InitMem ==
    /\ op = "mem" /\ pc = "check" /\ outcome = Running
    /\ y \in MemY /\ models \in MemModels /\ sigma \in MemSigma
    /\ p0 \in MemP0 /\ expected \in MemExpected
    /\ memLocalsInit
    /\ cpIdle

Init == InitFcp \/ InitTau \/ InitLik \/ InitMem

(***************************************************************************)
(* The calls.                                                              *)
(***************************************************************************)

Tau95Call ==
    /\ op = "tau95" /\ pc = "call"
    /\ outcome' = call_tau95(args)
    /\ pc' = "done"
    /\ UNCHANGED <<op, cpVars, memVars>>

ComputeLikelihoodCall ==
    /\ op = "compute_likelihood" /\ pc = "call"
    /\ outcome' = compute_likelihood(times)
    /\ pc' = "done"
    /\ UNCHANGED <<op, cpVars, memVars>>

(* for i in range(0, len(times), chunk_sz): the next i, or the end of the  *)
(* function, which has no return statement.                                *)
FcpLoop ==
    /\ op = "find_change_points" /\ pc = "loop"
    /\ IF i < Len(times)
       THEN pc' = "body" /\ UNCHANGED outcome
       ELSE pc' = "done" /\ outcome' = Returned(None)
    /\ UNCHANGED <<op, cpVars, memVars>>

(* The loop body, lines 46-52.  A name that is bound nowhere raises        *)
(* NameError where it is looked up; argmax stands for the function the     *)
(* body would call.                                                        *)
FcpBody ==
    /\ op = "find_change_points" /\ pc = "body"
    /\ LET t   == Slice(times, i, i + chunk_sz)
           bad == FirstUnbound(BodyNames)
       IN  /\ windows' = Append(windows, <<i, Len(t)>>)
           /\ likCalls' = IF bad = "compute_likelihood" THEN likCalls
                          ELSE Append(likCalls, Len(t))
           /\ IF bad # ""
              THEN /\ outcome' = Raised("NameError")
                   /\ pc' = "done"
                   /\ UNCHANGED <<i, chgpts>>
              ELSE /\ \E k_max \in 0..(Len(t) - 1) : chgpts' = Append(chgpts, k_max)
                   /\ i' = i + chunk_sz
                   /\ pc' = "loop"
                   /\ UNCHANGED outcome
    /\ UNCHANGED <<op, args, times, alpha, memVars>>

(* Lines 29-42: the shape checks, the defaults and p = p0.copy().  The     *)
(* variables p0 and expected keep the arguments as they were passed; the   *)
(* names as rebound by the defaults are P0OrDefault and ExpectedOrDefault. *)
MemCheck ==
    /\ op = "mem" /\ pc = "check"
    /\ LET err == ShapeError(y, models, sigma, p0, expected)
       IN  IF err # ""
           THEN /\ outcome' = Raised(err)
                /\ pc' = "done"
                /\ UNCHANGED p
           ELSE /\ p' = [j \in 1..Len(P0OrDefault.data) |-> RInt(P0OrDefault.data[j])]
                /\ pc' = "setup"
                /\ UNCHANGED outcome
    /\ UNCHANGED <<op, cpVars, y, models, sigma, p0, expected, H, g0, delta, pAtDelta,
                   call, converged>>

(* Lines 44-50: H and g0.                                                  *)
MemSetup ==
    /\ op = "mem" /\ pc = "setup"
    /\ IF Broadcasts(y, models, sigma)
       THEN /\ H' = Hmat(models, sigma)
            /\ g0' = G0(y, models, sigma)
            /\ pc' = "delta"
            /\ UNCHANGED outcome
       ELSE /\ outcome' = Raised("ValueError")
            /\ pc' = "done"
            /\ UNCHANGED <<H, g0>>
    /\ UNCHANGED <<op, cpVars, y, models, sigma, p0, expected, p, delta, pAtDelta,
                   call, converged>>

(* Lines 54-55: delta, and q closing over it.                              *)
MemDelta ==
    /\ op = "mem" /\ pc = "delta"
    /\ delta' = Delta(p, ExpectedOrDefault)
    /\ pAtDelta' = p
    /\ pc' = "plot"
    /\ UNCHANGED <<op, outcome, cpVars, y, models, sigma, p0, expected, p, H, g0,
                   call, converged>>

(* Lines 57-66: the plotting block.                                        *)
MemPlot ==
    /\ op = "mem" /\ pc = "plot"
    /\ p' = PlotBlock(p)
    /\ pc' = "solve"
    /\ UNCHANGED <<op, outcome, cpVars, y, models, sigma, p0, expected, H, g0, delta,
                   pAtDelta, call, converged>>

(* Lines 68-69: the solver call and p = pNew.                              *)
MemSolve ==
    /\ op = "mem" /\ pc = "solve"
    /\ LET n == Len(p)
       IN  /\ call' = [Q |-> Qmat(H, delta), g |-> g0, C |-> NegEye(n), d |-> Zeros(n),
                       x0 |-> p]
           /\ \E pNew \in shrager(call'.Q, call'.g, call'.C, call'.d, call'.x0) :
                 p' = pNew
    /\ pc' = "test"
    /\ UNCHANGED <<op, outcome, cpVars, y, models, sigma, p0, expected, H, g0, delta,
                   pAtDelta, converged>>

(* Lines 75-79: the convergence flag, the break and the return.            *)
MemConverged ==
    /\ op = "mem" /\ pc = "test"
    /\ converged' = FALSE
    /\ IF converged'
       THEN pc' = "done" /\ outcome' = Returned(p)
       ELSE pc' = "delta" /\ UNCHANGED outcome
    /\ UNCHANGED <<op, cpVars, y, models, sigma, p0, expected, p, H, g0, delta,
                   pAtDelta, call>>

Next ==
    \/ Tau95Call
    \/ ComputeLikelihoodCall
    \/ FcpLoop
    \/ FcpBody
    \/ MemCheck
    \/ MemSetup
    \/ MemDelta
    \/ MemPlot
    \/ MemSolve
    \/ MemConverged

Spec == Init /\ [][Next]_vars

(* The calls of mem alone.                                                 *)
MemNext ==
    \/ MemCheck
    \/ MemSetup
    \/ MemDelta
    \/ MemPlot
    \/ MemSolve
    \/ MemConverged

(* A running call takes its next step.  Every step of mem moves pc and a   *)
(* step is possible wherever pc is not "done", so this is weak fairness of *)
(* MemNext, stated on pc alone.                                            *)
MemPcs == {"check", "setup", "delta", "plot", "solve", "test", "done"}
MemAdvance == pc # "done" /\ pc' \in MemPcs /\ pc' # pc

FairMemSpec == InitMem /\ [][MemNext]_vars /\ WF_pc(MemAdvance)

(***************************************************************************)
(* The claims.                                                             *)
(***************************************************************************)

Done == pc = "done"

(* C1: for every input that passes the shape checks, and with a solver     *)
(* that always returns a feasible point, a call of mem leaves its loop     *)
(* and returns a weight vector (converged or reported as not converged).   *)
C1_MemTerminates ==
    (op = "mem" /\ pc = "setup") ~> (Done /\ outcome.kind = "return")

(* C2: for every strictly increasing timestamp sequence of length N >= 2,  *)
(* compute_likelihood returns a profile of length N whose entries          *)
(* L[1] .. L[N-1] are all finite.                                          *)
C2_ProfileFinite ==
    (op = "compute_likelihood" /\ Done /\ Len(times) >= 2)
        => /\ outcome.kind = "return"
           /\ Len(outcome.value) = Len(times)
           /\ \A k \in 1..(Len(times) - 1) : outcome.value[k + 1] = "fin"

(* The windows of n events: starts 0, chunk_sz, 2*chunk_sz, ..., each of   *)
(* chunk_sz events but possibly the last.                                  *)
ExpectedWindows(n) ==
    [w \in 1..((n + chunk_sz - 1) \div chunk_sz) |->
        <<(w - 1) * chunk_sz, Min(chunk_sz, n - (w - 1) * chunk_sz)>>]

(* C3: find_change_points cuts the timestamps into the consecutive         *)
(* windows of chunk_sz events that cover them and returns one result per   *)
(* window, in window order.                                                *)
C3_OneResultPerWindow ==
    (op = "find_change_points" /\ Done)
        => /\ outcome.kind = "return"
           /\ windows = ExpectedWindows(Len(times))
           /\ outcome.value # None
           /\ Len(outcome.value) = Len(windows)

(* C4: whenever mem is about to compute delta, in the first iteration and  *)
(* in every later one, every component of p is strictly positive.          *)
C4_PositiveAtDelta ==
    (op = "mem" /\ pc = "delta") => \A j \in 1..Len(p) : RSign(p[j]) > 0

(* The inputs C5 is about: models.shape[1] differs from y.shape[0], or     *)
(* sigma, p0 or a given expected has another shape than (Npts,),           *)
(* (Nmodels,), (Nmodels,).                                                 *)
ShapeMismatch ==
    /\ Len(models.shape) = 2
    /\ \/ Len(y.shape) >= 1 /\ models.shape[2] # y.shape[1]
       \/ sigma.shape # <<models.shape[2]>>
       \/ p0 # None /\ p0.shape # <<models.shape[1]>>
       \/ expected # None /\ expected.shape # <<models.shape[1]>>

(* C5: mem rejects every input with such a shape mismatch with an error,   *)
(* before it computes anything, iterates or calls the solver.              *)
C5_ShapeMismatchRejected ==
    (op = "mem" /\ ShapeMismatch)
        => /\ pc = "check" \/ (Done /\ outcome.kind = "raise")
           /\ H = Unbound /\ g0 = Unbound /\ delta = Unbound /\ call = None

C5_Witness ==
    /\ op = "mem" /\ Done
    /\ Len(models.shape) = 2 /\ Len(y.shape) >= 1 /\ models.shape[2] # y.shape[1]
    /\ sigma.shape = <<models.shape[2]>>
    /\ outcome = Raised("AssertionError")

(* C6: find_change_points never computes a likelihood profile of a chunk   *)
(* of fewer than 2 events.                                                 *)
C6_NoShortChunk ==
    op = "find_change_points" => \A j \in 1..Len(likCalls) : likCalls[j] >= 2

(* C7: a confidence level other than 0.05, given to the critical-value     *)
(* function or to find_change_points, ends in the "unsupported" error,     *)
(* the RuntimeError that tau95 raises.                                     *)
C7_UnsupportedAlpha ==
    (Done /\ \/ op = "find_change_points" /\ alpha # AlphaDefault
             \/ op = "tau95" /\ Len(args) = 2 /\ args[2] # AlphaDefault)
        => outcome = Raised("RuntimeError")

(* C8: tau95(n) raises for every n <= 1, returns P1(log n)/n for every n   *)
(* with 1 < n <= 100 and P2(log n)/n for every n > 100.                    *)
C8_Tau95Outcome ==
    (op = "tau95" /\ Done /\ Len(args) = 1)
        => LET n == args[1]
           IN  /\ n <= 1 => outcome = Raised("RuntimeError")
               /\ (1 < n /\ n <= 100) => outcome = Returned([poly |-> P1, n |-> n])
               /\ n > 100 => outcome = Returned([poly |-> P2, n |-> n])

C8_Witness ==
    /\ op = "tau95" /\ Done /\ args = <<100>>
    /\ outcome = Returned([poly |-> P1, n |-> 100])

(* C9: the problem handed to the solver is the minimisation of -q: for     *)
(* every point x the solver's objective, with the Q and g it was given,    *)
(* equals -q(x).                                                           *)
C9_SolverMinimisesNegQ ==
    (op = "mem" /\ pc = "test")
        => \A x \in Vectors(Len(call.x0), (-1)..PMax) :
              SolverObjective(call.Q, call.g, x) = ONeg(q(g0, H, delta, x))

(* C10: the start point given to the solver is the weight vector delta     *)
(* was computed from: nothing changes p between the two.                   *)
C10_StartPointIsCurrentWeights ==
    (op = "mem" /\ pc = "test") => call.x0 = pAtDelta
=============================================================================
